---------------------------- MODULE Spec2Model ----------------------------
(***************************************************************************)
(* calcumet: sheet metal calculator (src/calcumet.py, src/tools.py).       *)
(*                                                                         *)
(* Numbers.  Python floats are modelled as binary floating-point numbers   *)
(* with MantBits significant bits, round-to-nearest-even, on a grid of     *)
(* 2^-FracBits (the grid plays the part of the subnormal range).  A float  *)
(* is held as a natural number of grid units, so 1.0 is One.  Python ints  *)
(* that take part in float arithmetic are converted first (IntToFloat);    *)
(* every integer of the model is below 2^MantBits, so the conversion is    *)
(* exact, as it is below 2^53 in binary64.                                 *)
(*                                                                         *)
(* Dictionaries.  Python dicts keep insertion order and the program's      *)
(* output depends on it, so a dict is a sequence of <<key, value>> pairs   *)
(* with distinct keys.                                                     *)
(***************************************************************************)
EXTENDS Integers, Sequences, FiniteSets, TLC

(***************************************************************************)
(* Bounds of the model.                                                    *)
(***************************************************************************)
MantBits == 12
FracBits == 16
MaxRows == 2
MaxRuns == 2
MaxDem == 4
MaxElems == 3
MaxTabRows == 2
MaxUpdates == 2

RECURSIVE Pow2(_)
Pow2(n) == IF n = 0 THEN 1 ELSE 2 * Pow2(n - 1)

One == Pow2(FracBits)
Big == Pow2(MantBits)

(***************************************************************************)
(* Float arithmetic.                                                       *)
(***************************************************************************)
RECURSIVE UlpOf(_, _, _)
\* Spacing (in grid units) of the floats around the exact value num/den.
UlpOf(num, den, u) ==
    IF num < Big * u * den THEN u ELSE UlpOf(num, den, 2 * u)

\* The float nearest to the exact value num/den (grid units), ties to even.
RoundNearestEven(num, den) ==
    LET u == UlpOf(num, den, 1)
        q == num \div (den * u)
        r == num % (den * u)
    IN  IF 2 * r < den * u THEN q * u
        ELSE IF 2 * r > den * u THEN (q + 1) * u
        ELSE IF q % 2 = 0 THEN q * u ELSE (q + 1) * u

IntToFloat(n) == RoundNearestEven(n * One, 1)

\* float + float, float - float (a >= b throughout the program)
FAdd(a, b) == RoundNearestEven(a + b, 1)
FSub(a, b) == RoundNearestEven(a - b, 1)

\* int / int: Python true division, correctly rounded
TrueDiv(n, d) == RoundNearestEven(n * One, d)

\* float * int
FMulInt(x, n) == RoundNearestEven(x * n, 1)

\* math.ceil(float) -> int
ceil(x) == (x + One - 1) \div One

\* int(float): truncation
int(x) == x \div One

\* round(x, 1): the decimal with one digit nearest to the exact binary value
\* (ties to even), returned as the float nearest to that decimal.
round1(x) ==
    LET q == (10 * x) \div One
        r == (10 * x) % One
        t == IF 2 * r < One THEN q
             ELSE IF 2 * r > One THEN q + 1
             ELSE IF q % 2 = 0 THEN q ELSE q + 1
    IN  RoundNearestEven(t * One, 10)

(***************************************************************************)
(* Insertion-ordered dictionaries.                                         *)
(***************************************************************************)
Keys(d) == {d[i][1] : i \in DOMAIN d}
Has(d, k) == \E i \in DOMAIN d : d[i][1] = k
Get(d, k) == d[CHOOSE i \in DOMAIN d : d[i][1] = k][2]
GetOr(d, k, default) == IF Has(d, k) THEN Get(d, k) ELSE default
\* d[k] = v: an existing key keeps its position, a new key goes last
Put(d, k, v) ==
    IF Has(d, k)
    THEN [i \in DOMAIN d |-> IF d[i][1] = k THEN <<k, v>> ELSE d[i]]
    ELSE Append(d, <<k, v>>)
\* del d[k]
Del(d, k) == SelectSeq(d, LAMBDA p : p[1] # k)

\* sorted(s, key=...): stable, rank[i] is the key of s[i]
StableSort(s, rank) ==
    LET n == Len(s)
        Pos(i) == 1 + Cardinality({j \in 1..n :
                        rank[j] < rank[i] \/ (rank[j] = rank[i] /\ j < i)})
    IN  [p \in 1..n |-> s[CHOOSE i \in 1..n : Pos(i) = p]]

RECURSIVE SumSeq(_, _)
\* sum(values): left to right, starting from the int 0
SumSeq(vals, k) ==
    IF k = 0 THEN 0 ELSE FAdd(SumSeq(vals, k - 1), vals[k])

\* sum(d.values())
sum(d) == SumSeq([i \in DOMAIN d |-> d[i][2]], Len(d))

(***************************************************************************)
(* tools.py: the rounding policies.                                        *)
(***************************************************************************)
\* get_ceil_delta(value) = ceil(value) - value
get_ceil_delta(value) == FSub(IntToFloat(ceil(value)), value)

RECURSIVE Walk_CeilRest(_, _, _)
\* Variant of Walk: on an early exit the elements not yet visited are
\* rounded up as well.
Walk_CeilRest(d, k, spread) ==
    LET CeilFrom(dd, from) ==
            [j \in DOMAIN dd |-> IF j >= from
                                 THEN <<dd[j][1], IntToFloat(ceil(dd[j][2]))>>
                                 ELSE dd[j]]
    IN  IF k > Len(d) THEN [d |-> d, visited |-> Len(d), spread |-> spread]
        ELSE LET key == d[k][1]
                 val == d[k][2]
                 delta == get_ceil_delta(val)
             IN  IF spread < delta
                 THEN [d |-> CeilFrom(Put(d, key, FAdd(val, spread)), k + 1),
                       visited |-> k, spread |-> spread]
                 ELSE LET d2 == Put(d, key, IntToFloat(ceil(val)))
                          s2 == FSub(spread, delta)
                      IN  IF s2 = 0
                          THEN [d |-> CeilFrom(d2, k + 1), visited |-> k,
                                spread |-> s2]
                          ELSE Walk_CeilRest(d2, k + 1, s2)

RECURSIVE Walk(_, _, _)
\* The for loop of spread_delta from position k on, with the running spread.
\* Yields the dict, the number of elements visited and the spread left.
Walk(d, k, spread) ==
    IF k > Len(d) THEN [d |-> d, visited |-> Len(d), spread |-> spread]
    ELSE LET key == d[k][1]
             val == d[k][2]
             delta == get_ceil_delta(val)
         IN  IF spread < delta
             THEN [d |-> Put(d, key, FAdd(val, spread)), visited |-> k,
                   spread |-> spread]
             ELSE LET d2 == Put(d, key, IntToFloat(ceil(val)))
                      s2 == FSub(spread, delta)
                  IN  IF s2 = 0
                      THEN [d |-> d2, visited |-> k, spread |-> s2]
                      ELSE Walk(d2, k + 1, s2)

\* dict(sorted(d.items(), key=f)) with f the ceiling delta of the value
SortByDelta(d) == StableSort(d, [i \in DOMAIN d |-> get_ceil_delta(d[i][2])])

\* spread_delta with the bookkeeping of the walk
SpreadWalk(d) ==
    LET s == SortByDelta(d)
    IN  Walk(s, 1, get_ceil_delta(sum(s)))

spread_delta(d) == SpreadWalk(d).d

\* Variant of ceil_dict_values: the values are returned as they came.
ceil_dict_values_AsIs(d) == d

ceil_dict_values(d) == [i \in DOMAIN d |-> <<d[i][1], IntToFloat(ceil(d[i][2]))>>]

transformer(mode, d) ==
    IF mode = "grouped" THEN spread_delta(d) ELSE ceil_dict_values(d)

(***************************************************************************)
(* Strings: the names the model uses, as their characters, with the code   *)
(* points Python compares them by.                                         *)
(***************************************************************************)
Text ==
    [A |-> <<"A">>, D |-> <<"D">>, E |-> <<"E">>, U |-> <<"U">>,
     GC |-> <<"G", "C">>, gB |-> <<"g", "B">>,
     x |-> <<"x">>, y |-> <<"y">>, z |-> <<"z">>, w |-> <<"w">>, q |-> <<"q">>,
     S0 |-> <<"S", "0">>, S1 |-> <<"S", "1">>, S9 |-> <<"S", "9">>,
     g |-> <<"g">>, G |-> <<"G">>,
     grouped |-> <<"g", "r", "o", "u", "p", "e", "d">>,
     single |-> <<"s", "i", "n", "g", "l", "e">>]

Ord ==
    ("0" :> 48) @@ ("1" :> 49) @@ ("9" :> 57) @@
    [A |-> 65, B |-> 66, C |-> 67, D |-> 68, E |-> 69, G |-> 71, S |-> 83,
     U |-> 85, a |-> 97, b |-> 98, c |-> 99, d |-> 100, e |-> 101, g |-> 103,
     i |-> 105, l |-> 108, n |-> 110, o |-> 111, p |-> 112, q |-> 113,
     r |-> 114, s |-> 115, u |-> 117, w |-> 119, x |-> 120, y |-> 121,
     z |-> 122]

IsUpperChar(c) == Ord[c] >= 65 /\ Ord[c] <= 90
IsLowerChar(c) == Ord[c] >= 97 /\ Ord[c] <= 122
LowerChar(c) == IF IsUpperChar(c)
                THEN CHOOSE l \in DOMAIN Ord : Ord[l] = Ord[c] + 32
                ELSE c

\* str.lower(), str.islower() and the substring test, on character sequences
lower(t) == [k \in DOMAIN t |-> LowerChar(t[k])]
islower(t) ==
    /\ \E k \in DOMAIN t : IsLowerChar(t[k])
    /\ \A k \in DOMAIN t : ~IsUpperChar(t[k])
Contains(t, word) ==
    \E off \in 0..(Len(t) - Len(word)) :
        \A k \in DOMAIN word : t[off + k] = word[k]

\* has_marker(item, tester)
has_marker(item, tester) ==
    \E k \in DOMAIN tester :
        LET word == Text[tester[k]]
        IN  Contains(IF islower(word) THEN lower(Text[item]) ELSE Text[item], word)

\* a < b for Python strings: lexicographic by code point
StrLess(a, b) ==
    LET s == Text[a]
        t == Text[b]
    IN  \E k \in 1..(Len(s) + 1) :
            /\ \A j \in 1..(k - 1) : j <= Len(t) /\ s[j] = t[j]
            /\ k <= Len(t)
            /\ (k > Len(s) \/ Ord[s[k]] < Ord[t[k]])

\* dict(sorted(d.items())) for a dict with string keys
SortByKey(d) ==
    StableSort(d, [i \in DOMAIN d |->
                      Cardinality({j \in DOMAIN d : StrLess(d[j][1], d[i][1])})])

\* sort_nested_dict(d)
sort_nested_dict(d) ==
    SortByKey([i \in DOMAIN d |-> <<d[i][1], SortByKey(d[i][2])>>])

(***************************************************************************)
(* Reference tables of a calculation run (json dumps read at import,       *)
(* tools.py:37-38).  The dumps are written sorted by update_dump.  Item D  *)
(* holds an element without a preform record; the preform of w names a     *)
(* sheet the feedstock table lacks.                                        *)
(***************************************************************************)
contents ==
    << <<"A",  << <<"x", 1>>, <<"y", 1>> >> >>,
       <<"D",  << <<"q", 1>> >> >>,
       <<"E",  << <<"w", 1>> >> >>,
       <<"GC", << <<"y", 1>>, <<"z", 1>> >> >>,
       <<"gB", << <<"x", 2>> >> >> >>

preforms ==
    [x |-> [a |-> 10, b |-> 6, sheet |-> "S1"],
     y |-> [a |-> 4, b |-> 10, sheet |-> "S1"],
     z |-> [a |-> 4, b |-> 4, sheet |-> "S0"],
     w |-> [a |-> 4, b |-> 4, sheet |-> "S9"]]

feedstock ==
    [S0 |-> [d |-> 1, W |-> 8, L |-> 8, rho |-> 8],
     S1 |-> [d |-> 1, W |-> 10, L |-> 20, rho |-> 8]]

Max(a, b) == IF a >= b THEN a ELSE b

\* get_pps(a, b, sheet, feedstock); the sheet is in the table
get_pps(a, b, sheet, fs) ==
    LET length == fs[sheet].L
        width == fs[sheet].W
    IN  Max((length \div a) * (width \div b), (length \div b) * (width \div a))

(***************************************************************************)
(* State.                                                                  *)
(*   m, policy, res    a bucket, the policy applied to it and its result   *)
(*   file              loader.xlsx on disk: the demand sheet and the       *)
(*                     report sheet                                        *)
(*   pc, wb, i, now, grouped, temp, memo, transformed, report, stdout,     *)
(*   runs              one run of calculate_sheets_number: its position,   *)
(*                     the workbook in memory, the index of the next       *)
(*                     demand row, its locals and what it printed          *)
(*   dump, subitems    contents.json and subitems.json on disk             *)
(*   tab               the contents sheet of loader.xlsx on disk           *)
(*   upc, ws, utemp, ui, updates                                           *)
(*                     one run of update_dump for the contents tab: its    *)
(*                     position, the sheet in memory, the contents being   *)
(*                     updated, the index of the next row                  *)
(***************************************************************************)
VARIABLES m, policy, res,
          file, pc, wb, i, now, grouped, temp, memo, transformed, report,
          stdout, runs,
          dump, subitems, tab, upc, ws, utemp, ui, updates

rvars == <<m, policy, res>>
cvars == <<file, pc, wb, i, now, grouped, temp, memo, transformed, report,
           stdout, runs>>
uvars == <<dump, subitems, tab, upc, ws, utemp, ui, updates>>
vars == <<rvars, cvars, uvars>>

(***************************************************************************)
(* calculate_sheets_number                                                 *)
(***************************************************************************)
\* cell values of the date column
NoDate == [kind |-> "None", t |-> 0]
Stamp(n) == [kind |-> "now", t |-> n]
Flag(name) == [kind |-> name, t |-> 0]

\* cell values of the quantity column
IntCell(n) == [type |-> "int", val |-> n]
FloatCell == [type |-> "float", val |-> 2]

\* The rows the user may put in the demand sheet: <<item, quantity>>.  The
\* items of the bill of materials with positive quantities, the two items
\* with a broken reference, and the invalid rows: an unknown item (U), a
\* non-integer, a zero and a negative quantity.
DemandCells ==
    ({"A", "GC", "gB"} \X {IntCell(1), IntCell(2)})
        \cup {<<"D", IntCell(1)>>, <<"E", IntCell(1)>>}
        \cup ({"A", "U"} \X {IntCell(0), FloatCell})
        \cup {<<"U", IntCell(1)>>, <<"A", IntCell(-1)>>}

\* the -g argument: absent (None) or a list of substrings
GroupedArgs == {[none |-> TRUE, words |-> <<>>],
                [none |-> FALSE, words |-> <<"g">>],
                [none |-> FALSE, words |-> <<"G">>]}

\* Variant of Unprocessed: the date cell is not looked at.
Unprocessed_Always(row) == TRUE

\* `if not date.value`
Unprocessed(row) == row.date.kind = "None"

\* Variant of CounterUpdate: the value is stored, not added.
CounterUpdate_Overwrite(t, sheet, mode, elem, val) ==
    Put(t, sheet, Put(GetOr(t, sheet, <<>>), mode,
                      Put(GetOr(GetOr(t, sheet, <<>>), mode, <<>>), elem, val)))

\* temp.setdefault(sheet, {}).setdefault(mode, Counter()).update({elem: val})
CounterUpdate(t, sheet, mode, elem, val) ==
    LET sheetdict == GetOr(t, sheet, <<>>)
        counter == GetOr(sheetdict, mode, <<>>)
        count == IF Has(counter, elem) THEN FAdd(val, Get(counter, elem)) ELSE val
    IN  Put(t, sheet, Put(sheetdict, mode, Put(counter, elem, count)))

RECURSIVE Expand(_, _, _, _, _, _, _)
\* The loop over the elements of one item (lines 177-185) from position k.
\* exc names the exception that ends it, "" when it runs to its end.
Expand(item, qty, elems, k, t, mem, markers) ==
    IF k > Len(elems) THEN [exc |-> "", temp |-> t, memo |-> mem]
    ELSE
      LET elem == elems[k][1]
          pcs == elems[k][2]
      IN  IF elem \notin DOMAIN preforms
          THEN [exc |-> "KeyError", temp |-> t, memo |-> mem]
          ELSE
            LET a == preforms[elem].a
                b == preforms[elem].b
                sheet == preforms[elem].sheet
            IN  IF sheet \notin DOMAIN feedstock
                THEN [exc |-> "KeyError", temp |-> t, memo |-> mem]
                ELSE
                  LET entry == GetOr(mem, elem, [pps |-> get_pps(a, b, sheet, feedstock),
                                                 demand |-> 0, items |-> <<>>])
                      pps == entry.pps
                      dem == qty * pcs
                      mode == IF has_marker(item, markers) THEN "grouped" ELSE "single"
                  IN  IF pps = 0
                      THEN [exc |-> "ZeroDivisionError", temp |-> t,
                            memo |-> Put(mem, elem, entry)]
                      ELSE Expand(item, qty, elems, k + 1,
                                  CounterUpdate(t, sheet, mode, elem, TrueDiv(dem, pps)),
                                  Put(mem, elem, [pps |-> pps,
                                                  demand |-> entry.demand + dem,
                                                  items |-> Append(entry.items, item)]),
                                  markers)

RECURSIVE Flatten(_, _)
\* the concatenation of the first k sequences of ss
Flatten(ss, k) == IF k = 0 THEN <<>> ELSE Flatten(ss, k - 1) \o ss[k]

\* Variant of BucketRecords: the displayed sheet count is taken from the
\* bucket as it was before the transformation.
BucketRecords_PreRounding(sheet, mode, modedict, mem, stamp) ==
    LET out == transformer(mode, modedict)
    IN  [k \in DOMAIN out |->
            LET elem == out[k][1]
                sheets_n == out[k][2]
            IN  [date |-> stamp, sheet |-> sheet, mode |-> mode, elem |-> elem,
                 items |-> Get(mem, elem).items,
                 demand |-> Get(mem, elem).demand,
                 recomm |-> int(FMulInt(sheets_n, Get(mem, elem).pps)),
                 sheets_n |-> round1(Get(modedict, elem))]]

\* Lines 194-202 for one (sheet, mode): transform the bucket, one record per
\* element of the transformed bucket.
BucketRecords(sheet, mode, modedict, mem, stamp) ==
    LET out == transformer(mode, modedict)
    IN  [k \in DOMAIN out |->
            LET elem == out[k][1]
                sheets_n == out[k][2]
            IN  [date |-> stamp, sheet |-> sheet, mode |-> mode, elem |-> elem,
                 items |-> Get(mem, elem).items,
                 demand |-> Get(mem, elem).demand,
                 recomm |-> int(FMulInt(sheets_n, Get(mem, elem).pps)),
                 sheets_n |-> round1(sheets_n)]]

\* temp after the loop of lines 190-202: every bucket transformed
Transformed(t) ==
    [s \in DOMAIN t |->
        <<t[s][1], [k \in DOMAIN t[s][2] |->
                       <<t[s][2][k][1], transformer(t[s][2][k][1], t[s][2][k][2])>>]>>]

\* the report of lines 188-202, t being the sorted temp
Records(t, mem, stamp) ==
    Flatten([s \in DOMAIN t |->
                Flatten([k \in DOMAIN t[s][2] |->
                            BucketRecords(t[s][1], t[s][2][k][1], t[s][2][k][2],
                                          mem, stamp)],
                        Len(t[s][2]))],
            Len(t))

MSG == "No demand to process or incorrect values in demand"

\* The user adds a row to the demand sheet of loader.xlsx between runs.
AddRow ==
    /\ pc \in {"idle", "error"}
    /\ Len(file.demand) < MaxRows
    /\ \E cells \in DemandCells :
          file' = [file EXCEPT !.demand =
                      Append(@, [date |-> NoDate, item |-> cells[1],
                                 qty |-> cells[2]])]
    /\ UNCHANGED <<pc, wb, i, now, grouped, temp, memo, transformed, report,
                   stdout, runs>>
    /\ UNCHANGED <<rvars, uvars>>

\* Lines 154-159: a run starts and loads the workbook.
StartRun ==
    /\ pc \in {"idle", "error"}
    /\ runs < MaxRuns
    /\ \E arg \in GroupedArgs :
          grouped' = IF arg.none THEN <<>> ELSE arg.words
    /\ runs' = runs + 1
    /\ now' = runs + 1
    /\ temp' = <<>>
    /\ memo' = <<>>
    /\ transformed' = <<>>
    /\ report' = <<>>
    /\ stdout' = "none"
    /\ wb' = file
    /\ i' = 1
    /\ pc' = "loop"
    /\ UNCHANGED file
    /\ UNCHANGED <<rvars, uvars>>

InLoop == pc = "loop" /\ i <= Len(wb.demand)

SetDate(value) == wb' = [wb EXCEPT !.demand[i].date = value]

\* Line 162: a row whose date cell holds a value is passed over.
SkipRow ==
    /\ InLoop
    /\ ~Unprocessed(wb.demand[i])
    /\ i' = i + 1
    /\ UNCHANGED <<file, pc, wb, now, grouped, temp, memo, transformed, report,
                   stdout, runs>>
    /\ UNCHANGED <<rvars, uvars>>

\* Lines 165-173: an invalid row is flagged.
FlagRow ==
    /\ InLoop
    /\ Unprocessed(wb.demand[i])
    /\ LET item == wb.demand[i].item
           qty == wb.demand[i].qty
       IN  \/ /\ ~Has(contents, item)
              /\ SetDate(Flag("KeyError"))
           \/ /\ Has(contents, item)
              /\ qty.type # "int"
              /\ SetDate(Flag("TypeError"))
           \/ /\ Has(contents, item)
              /\ qty.type = "int"
              /\ qty.val <= 0
              /\ SetDate(Flag("ValueError"))
    /\ i' = i + 1
    /\ UNCHANGED <<file, pc, now, grouped, temp, memo, transformed, report,
                   stdout, runs>>
    /\ UNCHANGED <<rvars, uvars>>

Valid(row) ==
    /\ Has(contents, row.item)
    /\ row.qty.type = "int"
    /\ row.qty.val > 0

Expanded(row) ==
    Expand(row.item, row.qty.val, Get(contents, row.item), 1, temp, memo, grouped)

\* Lines 175-185: a valid row is stamped and aggregated.
AggregateRow ==
    /\ InLoop
    /\ Unprocessed(wb.demand[i])
    /\ Valid(wb.demand[i])
    /\ Expanded(wb.demand[i]).exc = ""
    /\ SetDate(Stamp(now))
    /\ temp' = Expanded(wb.demand[i]).temp
    /\ memo' = Expanded(wb.demand[i]).memo
    /\ i' = i + 1
    /\ UNCHANGED <<file, pc, now, grouped, transformed, report, stdout, runs>>
    /\ UNCHANGED <<rvars, uvars>>

\* Variant of RowFails: the workbook is saved when the run fails.
RowFails_Saves ==
    /\ InLoop
    /\ Unprocessed(wb.demand[i])
    /\ Valid(wb.demand[i])
    /\ Expanded(wb.demand[i]).exc # ""
    /\ SetDate(Stamp(now))
    /\ file' = wb'
    /\ temp' = Expanded(wb.demand[i]).temp
    /\ memo' = Expanded(wb.demand[i]).memo
    /\ pc' = "error"
    /\ UNCHANGED <<i, now, grouped, transformed, report, stdout, runs>>
    /\ UNCHANGED <<rvars, uvars>>

\* Lines 175-181: an exception in the loop over the elements ends the run;
\* the workbook in memory is lost with the process.
RowFails ==
    /\ InLoop
    /\ Unprocessed(wb.demand[i])
    /\ Valid(wb.demand[i])
    /\ Expanded(wb.demand[i]).exc # ""
    /\ SetDate(Stamp(now))
    /\ temp' = Expanded(wb.demand[i]).temp
    /\ memo' = Expanded(wb.demand[i]).memo
    /\ pc' = "error"
    /\ UNCHANGED <<file, i, now, grouped, transformed, report, stdout, runs>>
    /\ UNCHANGED <<rvars, uvars>>

\* Lines 187-208: sort, transform, report, save, print.
Finish ==
    /\ pc = "loop"
    /\ i > Len(wb.demand)
    /\ temp' = sort_nested_dict(temp)
    /\ transformed' = Transformed(temp')
    /\ report' = Records(temp', memo, now)
    /\ wb' = [wb EXCEPT !.report = @ \o report']
    /\ file' = wb'
    /\ stdout' = IF report' # <<>> THEN "table" ELSE MSG
    /\ pc' = "idle"
    /\ UNCHANGED <<i, now, grouped, memo, runs>>
    /\ UNCHANGED <<rvars, uvars>>

RIdle ==
    /\ m = <<>>
    /\ policy = "none"
    /\ res = [d |-> <<>>, visited |-> 0, spread |-> 0]

CIdle ==
    /\ file = [demand |-> <<>>, report |-> <<>>]
    /\ pc = "idle"
    /\ wb = [demand |-> <<>>, report |-> <<>>]
    /\ i = 1
    /\ now = 0
    /\ grouped = <<>>
    /\ temp = <<>>
    /\ memo = <<>>
    /\ transformed = <<>>
    /\ report = <<>>
    /\ stdout = "none"
    /\ runs = 0

UIdle ==
    /\ dump = <<>>
    /\ subitems = <<>>
    /\ tab = <<>>
    /\ upc = "idle"
    /\ ws = <<>>
    /\ utemp = <<>>
    /\ ui = 1
    /\ updates = 0

Init == RIdle /\ CIdle /\ UIdle

Next ==
    \/ AddRow
    \/ StartRun
    \/ SkipRow
    \/ FlagRow
    \/ AggregateRow
    \/ RowFails
    \/ Finish

Spec == Init /\ [][Next]_vars

(***************************************************************************)
(* update_dump(['contents']) with update_contents                          *)
(***************************************************************************)
StrCell(v) == [type |-> "str", val |-> v]
NoStr == [type |-> "NoneType", val |-> ""]
NoInt == [type |-> "NoneType", val |-> 0]

\* The rows the user may put in the contents sheet: <<item, elem, pcs>>.
\* Settings and deletions (pcs 0) for two items and two elements, an item
\* that holds itself, and the rejected rows: a negative, a non-integer and a
\* missing piece count, a missing element.
TabCells ==
    ({StrCell("A"), StrCell("gB")} \X {StrCell("x"), StrCell("y")}
         \X {IntCell(1), IntCell(2), IntCell(0)})
        \cup {<<StrCell("A"), StrCell("A"), IntCell(1)>>,
              <<StrCell("A"), StrCell("x"), IntCell(-1)>>,
              <<StrCell("A"), StrCell("x"), FloatCell>>,
              <<StrCell("A"), StrCell("x"), NoInt>>,
              <<StrCell("A"), NoStr, IntCell(1)>>}

\* contents.json as earlier updates may have left it: sorted, piece counts
\* positive integers, no item without elements
Dumps ==
    { <<>>,
      << <<"A", << <<"x", IntCell(1)>> >> >> >>,
      << <<"A", << <<"x", IntCell(1)>>, <<"y", IntCell(2)>> >> >>,
         <<"gB", << <<"x", IntCell(2)>> >> >> >> }

\* temp.setdefault(item, {}).update({elem: pcs})
SetElem(t, item, elem, pcs) == Put(t, item, Put(GetOr(t, item, <<>>), elem, pcs))

\* Variant of DeleteElem: an item left without elements stays.
DeleteElem_KeepEmpty(t, item, elem) == Put(t, item, Del(Get(t, item), elem))

\* del temp[item][elem], and del temp[item] when that leaves it empty
DeleteElem(t, item, elem) ==
    LET elems == Del(Get(t, item), elem)
    IN  IF elems = <<>> THEN Del(t, item) ELSE Put(t, item, elems)

RECURSIVE SubitemsOfItem(_, _, _, _)
\* lines 49-51 for one item, from its k-th element on
SubitemsOfItem(sub, item, elems, k) ==
    IF k > Len(elems) THEN sub
    ELSE SubitemsOfItem(
            IF elems[k][1] # item
            THEN Put(sub, elems[k][1], Append(GetOr(sub, elems[k][1], <<>>), item))
            ELSE sub,
            item, elems, k + 1)

RECURSIVE Subitems(_, _)
\* lines 46-51 over the first k items of t
Subitems(t, k) ==
    IF k = 0 THEN <<>>
    ELSE SubitemsOfItem(Subitems(t, k - 1), t[k][1], t[k][2], 1)

\* The user adds a row to the contents sheet of loader.xlsx.
AddTabRow ==
    /\ upc = "idle"
    /\ Len(tab) < MaxTabRows
    /\ \E cells \in TabCells :
          tab' = Append(tab, [date |-> NoDate, item |-> cells[1],
                              elem |-> cells[2], pcs |-> cells[3]])
    /\ UNCHANGED <<dump, subitems, upc, ws, utemp, ui, updates>>
    /\ UNCHANGED <<rvars, cvars>>

\* update_dump, lines 134-138: read the dump, load the workbook.
StartUpdate ==
    /\ upc = "idle"
    /\ updates < MaxUpdates
    /\ updates' = updates + 1
    /\ utemp' = dump
    /\ ws' = tab
    /\ ui' = 1
    /\ upc' = "loop"
    /\ UNCHANGED <<dump, subitems, tab>>
    /\ UNCHANGED <<rvars, cvars>>

InTab == upc = "loop" /\ ui <= Len(ws)

Incomplete(row) ==
    \/ row.item.type = "NoneType"
    \/ row.elem.type = "NoneType"
    \/ row.pcs.type = "NoneType"

MarkRow(value) == ws' = [ws EXCEPT ![ui].date = value]

\* line 18: a row whose date cell holds a value is passed over
SkipTabRow ==
    /\ InTab
    /\ ~Unprocessed(ws[ui])
    /\ ui' = ui + 1
    /\ UNCHANGED <<dump, subitems, tab, upc, ws, utemp, updates>>
    /\ UNCHANGED <<rvars, cvars>>

\* lines 22-24, 28-30, 43-44: a rejected row is flagged
RejectTabRow ==
    /\ InTab
    /\ Unprocessed(ws[ui])
    /\ \/ /\ Incomplete(ws[ui])
          /\ MarkRow(Flag("ValueError"))
       \/ /\ ~Incomplete(ws[ui])
          /\ ws[ui].pcs.type # "int"
          /\ MarkRow(Flag("TypeError"))
       \/ /\ ~Incomplete(ws[ui])
          /\ ws[ui].pcs.type = "int"
          /\ ws[ui].pcs.val < 0
          /\ MarkRow(Flag("ValueError"))
    /\ ui' = ui + 1
    /\ UNCHANGED <<dump, subitems, tab, upc, utemp, updates>>
    /\ UNCHANGED <<rvars, cvars>>

IntRow(row) == ~Incomplete(row) /\ row.pcs.type = "int"

\* lines 32-34: a positive piece count is stored
SetTabRow ==
    /\ InTab
    /\ Unprocessed(ws[ui])
    /\ IntRow(ws[ui])
    /\ ws[ui].pcs.val > 0
    /\ utemp' = SetElem(utemp, ws[ui].item.val, ws[ui].elem.val, ws[ui].pcs)
    /\ MarkRow(Stamp(updates))
    /\ ui' = ui + 1
    /\ UNCHANGED <<dump, subitems, tab, upc, updates>>
    /\ UNCHANGED <<rvars, cvars>>

\* lines 35-42: a zero piece count deletes the element, KeyError when the
\* item or the element is not there
DeleteTabRow ==
    /\ InTab
    /\ Unprocessed(ws[ui])
    /\ IntRow(ws[ui])
    /\ ws[ui].pcs.val = 0
    /\ IF Has(utemp, ws[ui].item.val) /\ Has(Get(utemp, ws[ui].item.val), ws[ui].elem.val)
       THEN /\ utemp' = DeleteElem(utemp, ws[ui].item.val, ws[ui].elem.val)
            /\ MarkRow(Stamp(updates))
       ELSE /\ utemp' = utemp
            /\ MarkRow(Flag("KeyError"))
    /\ ui' = ui + 1
    /\ UNCHANGED <<dump, subitems, tab, upc, updates>>
    /\ UNCHANGED <<rvars, cvars>>

\* lines 46-58 and update_dump, lines 139-144: subitems.json is written, the
\* workbook saved, the contents sorted and dumped.
FinishUpdate ==
    /\ upc = "loop"
    /\ ui > Len(ws)
    /\ subitems' = Subitems(utemp, Len(utemp))
    /\ tab' = ws
    /\ utemp' = sort_nested_dict(utemp)
    /\ dump' = utemp'
    /\ upc' = "idle"
    /\ UNCHANGED <<ws, ui, updates>>
    /\ UNCHANGED <<rvars, cvars>>

UInit ==
    /\ RIdle
    /\ CIdle
    /\ dump \in Dumps
    /\ subitems = Subitems(dump, Len(dump))
    /\ tab = <<>>
    /\ upc = "idle"
    /\ ws = <<>>
    /\ utemp = <<>>
    /\ ui = 1
    /\ updates = 0

UNext ==
    \/ AddTabRow
    \/ StartUpdate
    \/ SkipTabRow
    \/ RejectTabRow
    \/ SetTabRow
    \/ DeleteTabRow
    \/ FinishUpdate

SpecContents == UInit /\ [][UNext]_vars

(***************************************************************************)
(* The rounding policies on their own: a bucket is drawn, a policy is      *)
(* applied to it.                                                          *)
(***************************************************************************)
ElemKeys == <<"x", "y", "z", "w", "q">>

\* preforms-per-sheet values of the reference tables
PpsValues == {get_pps(preforms[e].a, preforms[e].b, preforms[e].sheet, feedstock) :
                 e \in {"x", "y", "z"}}

\* fractional sheet counts of one demand entry: qty * pcs / pps
Vals == {TrueDiv(n, p) : n \in 1..MaxDem, p \in PpsValues}

\* the bucket of n elements with the values f
Bucket(n, f) == [k \in 1..n |-> <<ElemKeys[k], f[k]>>]

RInit ==
    /\ \E n \in 0..MaxElems : \E f \in [1..n -> Vals] : m = Bucket(n, f)
    /\ policy = "none"
    /\ res = [d |-> <<>>, visited |-> 0, spread |-> 0]
    /\ CIdle
    /\ UIdle

ApplyGrouped ==
    /\ policy = "none"
    /\ policy' = "grouped"
    /\ res' = SpreadWalk(m)
    /\ UNCHANGED m
    /\ UNCHANGED <<cvars, uvars>>

ApplySingle ==
    /\ policy = "none"
    /\ policy' = "single"
    /\ res' = [d |-> ceil_dict_values(m), visited |-> Len(m), spread |-> 0]
    /\ UNCHANGED m
    /\ UNCHANGED <<cvars, uvars>>

RNext == ApplyGrouped \/ ApplySingle

SpecRound == RInit /\ [][RNext]_vars

(***************************************************************************)
(* Claims about the rounding policies (SpecRound).                         *)
(***************************************************************************)
IsInteger(v) == v % One = 0

\* C1: whenever the walk of spread_delta visits every element (no exit
\* before the last one), the sum of the returned values equals
\* ceil(sum of the input values).
C1_SumIsCeilOfSum ==
    (policy = "grouped" /\ res.visited = Len(m))
        => sum(res.d) = IntToFloat(ceil(sum(m)))

\* C2 as stated: under both policies every returned value is an integer and
\* the returned mapping has exactly the input's keys.
C2_AllIntegers ==
    policy # "none" =>
        /\ Keys(res.d) = Keys(m)
        /\ Len(res.d) = Len(m)
        /\ \A k \in DOMAIN res.d : IsInteger(res.d[k][2])

\* C2 amended: both policies return exactly the input's keys; every value of
\* ceil_dict_values is an integer, the ceiling of its input; every value of
\* spread_delta lies between its input and the ceiling of its input, and
\* need not be an integer.
C2_KeysKeptValuesUpToCeil ==
    policy # "none" =>
        /\ Keys(res.d) = Keys(m)
        /\ Len(res.d) = Len(m)
        /\ \A k \in DOMAIN res.d :
              LET key == res.d[k][1]
                  v == res.d[k][2]
              IN  /\ policy = "single" =>
                        (IsInteger(v) /\ v = IntToFloat(ceil(Get(m, key))))
                  /\ policy = "grouped" =>
                        (Get(m, key) <= v /\ v <= IntToFloat(ceil(Get(m, key))))

\* spread_delta returned a value that is not an integer
C2_Witness ==
    /\ policy = "grouped"
    /\ Len(m) >= 2
    /\ \E k \in DOMAIN res.d : ~IsInteger(res.d[k][2])

\* C8: when the walk of spread_delta exits early, every element not yet
\* visited keeps its input value in the returned mapping.
C8_UnvisitedKeepInput ==
    policy = "grouped" =>
        \A k \in (res.visited + 1)..Len(res.d) :
            res.d[k][2] = Get(m, res.d[k][1])

\* the spread reached exactly 0 before the last element, and an element
\* left unvisited is fractional
C8_Witness ==
    /\ policy = "grouped"
    /\ res.visited < Len(m)
    /\ res.spread = 0
    /\ \E k \in (res.visited + 1)..Len(res.d) : ~IsInteger(res.d[k][2])

(***************************************************************************)
(* Claims about a calculation run (Spec).                                  *)
(***************************************************************************)
Modes == {"grouped", "single"}

InBucket(t, sheet, mode, elem) ==
    /\ Has(t, sheet)
    /\ Has(Get(t, sheet), mode)
    /\ Has(Get(Get(t, sheet), mode), elem)

Value(t, sheet, mode, elem) == Get(Get(Get(t, sheet), mode), elem)

\* a run has run to its end: its report and its locals are in the state
RunDone == pc = "idle" /\ runs > 0

\* C3 as stated: the displayed sheet count of a report row is the bucket's
\* pre-rounding accumulated value rounded to 1 decimal, the recommended piece
\* count is int(post-distribution sheet count * pps).
C3_DisplayedIsPreRounding ==
    RunDone =>
        \A k \in DOMAIN report :
            LET r == report[k]
            IN  /\ r.sheets_n = round1(Value(temp, r.sheet, r.mode, r.elem))
                /\ r.recomm = int(FMulInt(Value(transformed, r.sheet, r.mode, r.elem),
                                          Get(memo, r.elem).pps))

\* C3 amended: the displayed sheet count of a report row is the
\* post-distribution sheet count (the output of the rounding policy) rounded
\* to 1 decimal, and the recommended piece count is int(that same
\* post-distribution sheet count * pps).
C3_DisplayedIsPostDistribution ==
    RunDone =>
        \A k \in DOMAIN report :
            LET r == report[k]
                v == Value(transformed, r.sheet, r.mode, r.elem)
            IN  /\ r.sheets_n = round1(v)
                /\ r.recomm = int(FMulInt(v, Get(memo, r.elem).pps))

\* a row whose displayed count differs from the rounded pre-rounding value
C3_Witness ==
    /\ RunDone
    /\ \E k \in DOMAIN report :
          report[k].sheets_n #
              round1(Value(temp, report[k].sheet, report[k].mode, report[k].elem))

StrLE(a, b) == a = b \/ StrLess(a, b)

\* C4: the report rows of a run are in ascending order of sheet name, then
\* mode name, then element name.
C4_RowsSortedByName ==
    RunDone =>
        \A p, k \in DOMAIN report :
            p < k =>
                \/ StrLess(report[p].sheet, report[k].sheet)
                \/ /\ report[p].sheet = report[k].sheet
                   /\ StrLess(report[p].mode, report[k].mode)
                \/ /\ report[p].sheet = report[k].sheet
                   /\ report[p].mode = report[k].mode
                   /\ StrLE(report[p].elem, report[k].elem)

\* the entries of a run: rows whose date cell was empty when the workbook
\* was loaded; valid when the item is in the bill of materials and the
\* quantity is a positive integer
C5_Entry(r) == file.demand[r].date.kind = "None"
C5_ValidEntry(r) ==
    /\ C5_Entry(r)
    /\ file.demand[r].item \in Keys(contents)
    /\ file.demand[r].qty.type = "int"
    /\ file.demand[r].qty.val > 0

C5_Mode(item) == IF has_marker(item, grouped) THEN "grouped" ELSE "single"

C5_Pps(elem) ==
    get_pps(preforms[elem].a, preforms[elem].b, preforms[elem].sheet, feedstock)

RECURSIVE C5_Contributions(_, _, _, _)
\* qty * pcs / pps of the valid entries among the first k rows whose item
\* contains elem and has the mode, in the order of the rows
C5_Contributions(k, sheet, mode, elem) ==
    IF k = 0 THEN <<>>
    ELSE LET rest == C5_Contributions(k - 1, sheet, mode, elem)
             item == file.demand[k].item
         IN  IF /\ C5_ValidEntry(k)
                /\ Has(Get(contents, item), elem)
                /\ preforms[elem].sheet = sheet
                /\ C5_Mode(item) = mode
             THEN Append(rest, TrueDiv(file.demand[k].qty.val
                                          * Get(Get(contents, item), elem),
                                       C5_Pps(elem)))
             ELSE rest

RECURSIVE C5_Demand(_, _)
C5_Demand(k, elem) ==
    IF k = 0 THEN 0
    ELSE C5_Demand(k - 1, elem)
            + (IF C5_ValidEntry(k) /\ Has(Get(contents, file.demand[k].item), elem)
               THEN file.demand[k].qty.val * Get(Get(contents, file.demand[k].item), elem)
               ELSE 0)

RECURSIVE C5_Items(_, _)
C5_Items(k, elem) ==
    IF k = 0 THEN <<>>
    ELSE IF C5_ValidEntry(k) /\ Has(Get(contents, file.demand[k].item), elem)
         THEN Append(C5_Items(k - 1, elem), file.demand[k].item)
         ELSE C5_Items(k - 1, elem)

C5_FlagOf(r) ==
    IF file.demand[r].item \notin Keys(contents) THEN "KeyError"
    ELSE IF file.demand[r].qty.type # "int" THEN "TypeError"
    ELSE "ValueError"

\* C5: during and after the aggregation loop, each (sheet, mode, element)
\* bucket holds the sum of qty * pcs / pps over exactly the valid entries read
\* so far whose item contains the element and has the mode; an invalid entry
\* is flagged and adds nothing to any bucket or element memo.
C5_BucketsSumValidEntries ==
    pc = "loop" =>
        /\ \A sheet \in Keys(temp) : sheet \in DOMAIN feedstock
        /\ \A sheet \in DOMAIN feedstock, mode \in Modes :
              \A elem \in {e \in DOMAIN preforms : preforms[e].sheet = sheet} :
                  LET c == C5_Contributions(i - 1, sheet, mode, elem)
                  IN  IF c = <<>> THEN ~InBucket(temp, sheet, mode, elem)
                      ELSE /\ InBucket(temp, sheet, mode, elem)
                           /\ Value(temp, sheet, mode, elem) = SumSeq(c, Len(c))
        /\ \A r \in 1..(i - 1) :
              (C5_Entry(r) /\ ~C5_ValidEntry(r))
                  => wb.demand[r].date = Flag(C5_FlagOf(r))
        /\ \A elem \in DOMAIN preforms :
              IF C5_Items(i - 1, elem) = <<>> THEN ~Has(memo, elem)
              ELSE /\ Has(memo, elem)
                   /\ Get(memo, elem).demand = C5_Demand(i - 1, elem)
                   /\ Get(memo, elem).items = C5_Items(i - 1, elem)

\* the loop is over, having met an invalid entry and aggregated a valid one
C5_Witness ==
    /\ pc = "loop"
    /\ i > Len(wb.demand)
    /\ \E r \in DOMAIN file.demand : C5_Entry(r) /\ ~C5_ValidEntry(r)
    /\ \E r \in DOMAIN file.demand : C5_ValidEntry(r)
    /\ temp # <<>>

\* a valid entry whose item holds an element with no preform record, or
\* whose preform names a sheet the feedstock table lacks
C6_BadReference(row) ==
    /\ row.date.kind = "None"
    /\ row.item \in Keys(contents)
    /\ row.qty.type = "int"
    /\ row.qty.val > 0
    /\ \E e \in Keys(Get(contents, row.item)) :
          \/ e \notin DOMAIN preforms
          \/ preforms[e].sheet \notin DOMAIN feedstock

\* C6: a run that reaches such an entry ends in the error state, and nothing
\* of that run is produced or saved: the file keeps its report sheet and its
\* date cells, no report exists and nothing is printed.
C6_FatalRunSavesNothing ==
    [][ /\ (InLoop /\ C6_BadReference(wb.demand[i]))
            => (pc' = "error" /\ file' = file /\ report' = <<>>
                /\ wb'.report = file.report /\ stdout' = "none")
        /\ pc = "error"
            => (/\ file'.report = file.report
                /\ \A r \in DOMAIN file.demand : file'.demand[r] = file.demand[r])
      ]_vars

\* the run failed after it had stamped an earlier entry, which the file
\* still shows undated
C6_Witness ==
    /\ pc = "error"
    /\ i > 1
    /\ \E r \in 1..(i - 1) :
          wb.demand[r].date = Stamp(now) /\ file.demand[r].date.kind = "None"

\* C9: in every report row the recommended piece count is at least the
\* total piece demand of the row.
C9_RecommCoversDemand ==
    RunDone => \A k \in DOMAIN report : report[k].recomm >= report[k].demand

\* C10: a demand row whose date cell is set keeps its mark in the file, and
\* a run passes over it without aggregating it or changing the workbook.
C10_MarkedRowsHandledOnce ==
    [][ /\ \A r \in DOMAIN file.demand :
              file.demand[r].date.kind # "None"
                  => (r \in DOMAIN file'.demand /\ file'.demand[r] = file.demand[r])
        /\ (InLoop /\ wb.demand[i].date.kind # "None")
              => (temp' = temp /\ memo' = memo /\ wb' = wb)
      ]_vars

\* a later run has passed over a row that an earlier run stamped, and has
\* aggregated a row of its own
C10_Witness ==
    /\ pc = "loop"
    /\ \E r \in 1..(i - 1) :
          wb.demand[r].date.kind = "now" /\ wb.demand[r].date.t < now
    /\ \E r \in 1..(i - 1) : wb.demand[r].date = Stamp(now)
    /\ temp # <<>>

(***************************************************************************)
(* Claims about update_contents (SpecContents).                            *)
(***************************************************************************)
C7_WellFormed(t) ==
    \A k \in DOMAIN t :
        /\ t[k][2] # <<>>
        /\ \A j \in DOMAIN t[k][2] :
              t[k][2][j][2].type = "int" /\ t[k][2][j][2].val > 0

\* C7: from contents whose piece counts are positive integers and whose
\* items all have elements, the contents being updated and the contents
\* dumped keep every piece count a positive integer and no item without
\* elements, whatever rows are processed.
C7_PieceCountsPositive == C7_WellFormed(utemp) /\ C7_WellFormed(dump)

\* a deletion row has just removed the last element of an item, and the
\* item with it
C7_Witness ==
    /\ upc = "loop"
    /\ ui > 1
    /\ ws[ui - 1].pcs = IntCell(0)
    /\ ws[ui - 1].date.kind = "now"
    /\ Has(dump, ws[ui - 1].item.val)
    /\ ~Has(utemp, ws[ui - 1].item.val)

=============================================================================
